---- MODULE Spec2Model ----
(***************************************************************************)
(* github_trending_bot.py: the trend comparison core.                      *)
(*   find_comparison_file  closest dated snapshot file within two days     *)
(*   analyze_data          summary statistics of a snapshot                *)
(*   compare_trends        the printed diff of two snapshots               *)
(* Python values are modelled as follows: a dict is a TLA+ record whose    *)
(* DOMAIN is its key set (an insertion-ordered dict whose order is read is *)
(* a sequence of <<key, value>> pairs), a list is a sequence, None is      *)
(* PyNone where a dict or a path is expected and Null where a string is,   *)
(* a raised exception is the record [raised |-> <its name>].               *)
(***************************************************************************)
EXTENDS Integers, Sequences, FiniteSets, TLC

VARIABLES
    pc,                 \* the step the run is at
    files,              \* glob.glob("data/data_*.json"): the stems, in enumeration order
    now,                \* datetime.now(): [ord, sec]
    days_ago,           \* find_comparison_file's argument
    comparison_file,    \* find_comparison_file's result
    repos,              \* the current snapshot (main's repos)
    analysis_result,    \* analyze_data(repos)
    previous_data,      \* the previous snapshot (main's previous_data)
    previous_analysis,  \* analyze_data(previous_data)
    report,             \* what compare_trends printed, and its local lists
    disk,               \* the text of each file of the data directory, by stem
    raw_data_path,      \* main's raw_data_path: the stem of data_<today>.json
    save_ok             \* whether save_raw_data wrote the file without an exception

vars == <<pc, files, now, days_ago, comparison_file, repos, analysis_result,
          previous_data, previous_analysis, report, disk, raw_data_path, save_ok>>

PyNone == [none |-> TRUE]

Null == "<null>"

Raised(e) == [raised |-> e]

IsRaised(v) == v \in {Raised("KeyError"), Raised("TypeError"), Raised("ZeroDivisionError")}

Abs(n) == IF n < 0 THEN -n ELSE n

(***************************************************************************)
(* Dates.  A file data_<stem>.json has the stem [y, m, d] of its name's    *)
(* three '-'-separated numbers; datetime.strptime(stem, '%Y-%m-%d') raises *)
(* ValueError unless they name a day of the calendar.                      *)
(***************************************************************************)
MaxFiles == 3

SecondsPerDay == 86400

IsLeap(y) == (y % 4 = 0) /\ ((y % 100 # 0) \/ (y % 400 = 0))

DaysInMonth(y, m) ==
    IF m = 2 THEN (IF IsLeap(y) THEN 29 ELSE 28)
    ELSE IF m \in {4, 6, 9, 11} THEN 30 ELSE 31

DaysBeforeYear(y) ==
    (y - 1) * 365 + ((y - 1) \div 4) - ((y - 1) \div 100) + ((y - 1) \div 400)

RECURSIVE DaysBeforeMonth(_, _)
DaysBeforeMonth(y, m) ==
    IF m <= 1 THEN 0 ELSE DaysBeforeMonth(y, m - 1) + DaysInMonth(y, m - 1)

\* strptime: ValueError for a month or a day that does not exist
Strptime(stem) ==
    IF /\ stem.y \in 1..9999
       /\ stem.m \in 1..12
       /\ stem.d \in 1..DaysInMonth(stem.y, stem.m)
    THEN [ord |-> DaysBeforeYear(stem.y) + DaysBeforeMonth(stem.y, stem.m) + stem.d,
          sec |-> 0]
    ELSE Raised("ValueError")

\* (a - b).days of two datetimes: the floor of the difference in days
TimedeltaDays(a, b) ==
    ((a.ord - b.ord) * SecondsPerDay + (a.sec - b.sec)) \div SecondsPerDay

Stem(y, m, d) == [y |-> y, m |-> m, d |-> d]

\* the stems the data directory may hold: days around the end of February
\* 2024, with 2024-02-30 and 2024-13-01 the names strptime rejects
FileStems ==
    {Stem(2024, m, d) : m \in {2, 3}, d \in {1, 2, 29, 30}} \cup {Stem(2024, 13, 1)}

Clocks ==
    {[ord |-> Strptime(Stem(2024, 3, d)).ord, sec |-> s] : d \in {2, 8}, s \in {0, 86399}}

DaysAgoValues == {0, 1, 2, 7}

RECURSIVE SeqsUpTo(_, _)
\* the sequences of at most n distinct elements of S
SeqsUpTo(S, n) ==
    IF n = 0 THEN {<<>>}
    ELSE LET shorter == SeqsUpTo(S, n - 1)
         IN shorter \cup {Append(s, x) : s \in {t \in shorter : Len(t) = n - 1},
                                            x \in S}

Distinct(s) == \A i, j \in 1..Len(s) : i # j => s[i] # s[j]

Listings == {s \in SeqsUpTo(FileStems, MaxFiles) : Distinct(s)}

Tolerance == 2

\* FindStep with "date_diff <= min_diff": a later file of the same distance wins
FindStepLastWins(acc, file_path, target_date) ==
    LET file_date == Strptime(file_path)
    IN IF file_date = Raised("ValueError") THEN acc
       ELSE LET date_diff == Abs(TimedeltaDays(target_date, file_date))
            IN IF acc.min_diff = -1 \/ date_diff <= acc.min_diff
               THEN [closest_file |-> file_path, min_diff |-> date_diff]
               ELSE acc

\* the loop body of find_comparison_file on one file, acc = [closest_file, min_diff]
\* (min_diff = -1 stands for float('inf'))
FindStep(acc, file_path, target_date) ==
    LET file_date == Strptime(file_path)
    IN IF file_date = Raised("ValueError") THEN acc
       ELSE LET date_diff == Abs(TimedeltaDays(target_date, file_date))
            IN IF acc.min_diff = -1 \/ date_diff < acc.min_diff
               THEN [closest_file |-> file_path, min_diff |-> date_diff]
               ELSE acc

RECURSIVE FindLoop(_, _, _)
FindLoop(acc, fs, target_date) ==
    IF fs = <<>> THEN acc
    ELSE FindLoop(FindStep(acc, Head(fs), target_date), Tail(fs), target_date)

find_comparison_file(days, fs, clock) ==
    LET target_date == [ord |-> clock.ord - days, sec |-> clock.sec]
        acc == FindLoop([closest_file |-> PyNone, min_diff |-> -1], fs, target_date)
    IN IF fs = <<>> THEN PyNone
       ELSE IF acc.min_diff # -1 /\ acc.min_diff <= Tolerance
            THEN acc.closest_file ELSE PyNone

NoReport == [printed |-> FALSE]

\* a run that writes and reads no file of the data directory
NoSave == disk = <<>> /\ raw_data_path = PyNone /\ save_ok = FALSE

\* the clock of a run that looks up no file
NoClock == [ord |-> 1, sec |-> 0]

InitFind ==
    /\ pc = "find"
    /\ files \in Listings
    /\ now \in Clocks
    /\ days_ago \in DaysAgoValues
    /\ comparison_file = PyNone
    /\ repos = <<>>
    /\ analysis_result = PyNone
    /\ previous_data = <<>>
    /\ previous_analysis = PyNone
    /\ report = NoReport
    /\ NoSave

FindComparisonFile ==
    /\ pc = "find"
    /\ comparison_file' = find_comparison_file(days_ago, files, now)
    /\ pc' = "found"
    /\ UNCHANGED <<files, now, days_ago, repos, analysis_result, previous_data,
                   previous_analysis, report, disk, raw_data_path, save_ok>>

NextFind == FindComparisonFile

SpecFind == InitFind /\ [][NextFind]_vars

(***************************************************************************)
(* Snapshots.  A repository record is the dict of one search result: the   *)
(* keys full_name, name, stargazers_count, and language and forks_count    *)
(* when the record carries them (language may be null or empty).  A        *)
(* snapshot is a list of records with distinct full_name, in the order of  *)
(* the search (sort=stars, order=desc).                                    *)
(***************************************************************************)
MaxRepos == 3

Repo(full_name, name, stars, language) ==
    [full_name |-> full_name, name |-> name, stargazers_count |-> stars,
     language |-> language]

\* dict[key] = value
SetItem(d, key, value) ==
    [k \in DOMAIN d \cup {key} |-> IF k = key THEN value ELSE d[k]]

\* dict.get(key, default)
Get(d, key, default) == IF key \in DOMAIN d THEN d[key] ELSE default

\* the records the search may return for four repositories, each as captured
\* on two different days
RepoPool ==
    { SetItem(Repo("o1/a", "a", 3, "Go"), "forks_count", 1),
      Repo("o1/a", "a", 0, Null),
      SetItem(Repo("o2/a", "a", 3, "C++"), "forks_count", 2),
      Repo("o2/a", "a", 2, "C"),
      SetItem(Repo("o1/b", "b", 3, Null), "forks_count", 0),
      SetItem(Repo("o1/b", "b", 0, "Go"), "forks_count", 0),
      SetItem(Repo("o2/c", "c", 2, "Python"), "forks_count", 1),
      Repo("o2/c", "c", 0, "") }

\* a record that carries no language key
NoLanguageRepo == [full_name |-> "o3/d", name |-> "d", stargazers_count |-> 0]

DistinctNames(rs) ==
    \A i, j \in 1..Len(rs) : i # j => rs[i].full_name # rs[j].full_name

ByStarsDesc(rs) ==
    \A i \in 1..Len(rs) - 1 : rs[i].stargazers_count >= rs[i + 1].stargazers_count

SnapshotsOf(pool) ==
    {rs \in SeqsUpTo(pool, MaxRepos) : DistinctNames(rs) /\ ByStarsDesc(rs)}

Snapshots == SnapshotsOf(RepoPool)

(***************************************************************************)
(* analyze_data                                                            *)
(***************************************************************************)
\* x or 'N/A': None and the empty string are falsy
OrNA(x) == IF x = Null \/ x = "" THEN "N/A" ELSE x

Keys(pairs) == {pairs[i][1] : i \in 1..Len(pairs)}

\* an insertion-ordered dict as a sequence of <<key, value>>: d.get(key, default)
PairsGet(pairs, key, default) ==
    IF key \in Keys(pairs)
    THEN pairs[CHOOSE i \in 1..Len(pairs) : pairs[i][1] = key][2]
    ELSE default

RECURSIVE Counter(_)
\* collections.Counter(list): keys in first-seen order
Counter(list) ==
    IF list = <<>> THEN <<>>
    ELSE LET c == Counter(SubSeq(list, 1, Len(list) - 1))
             x == list[Len(list)]
         IN IF x \in Keys(c)
            THEN [i \in 1..Len(c) |-> IF c[i][1] = x THEN <<x, c[i][2] + 1>> ELSE c[i]]
            ELSE Append(c, <<x, 1>>)

RECURSIVE InsertDesc(_, _)
\* x put behind every entry whose key is at least x.key
InsertDesc(sorted, x) ==
    IF sorted = <<>> THEN <<x>>
    ELSE IF Head(sorted).key >= x.key
         THEN <<Head(sorted)>> \o InsertDesc(Tail(sorted), x)
         ELSE <<x>> \o sorted

RECURSIVE SortedDesc(_)
\* sorted(entries, key=..., reverse=True): descending by key, equal keys keep
\* their order
SortedDesc(entries) ==
    IF entries = <<>> THEN <<>>
    ELSE InsertDesc(SortedDesc(SubSeq(entries, 1, Len(entries) - 1)),
                    entries[Len(entries)])

\* Counter.most_common(): by count descending, first-seen order among equals
MostCommon(c) ==
    LET keyed == [i \in 1..Len(c) |-> [key |-> c[i][2], item |-> c[i]]]
        s == SortedDesc(keyed)
    IN [i \in 1..Len(s) |-> s[i].item]

RECURSIVE SumSeq(_)
SumSeq(s) == IF s = <<>> THEN 0 ELSE Head(s) + SumSeq(Tail(s))

analyze_data(rs) ==
    IF rs = <<>> THEN PyNone
    ELSE IF \E i \in 1..Len(rs) : "language" \notin DOMAIN rs[i]
         THEN Raised("KeyError")
         ELSE LET language_list == [i \in 1..Len(rs) |-> OrNA(rs[i].language)]
              IN [repo_count |-> Len(rs),
                  total_stars |-> SumSeq([i \in 1..Len(rs) |-> rs[i].stargazers_count]),
                  total_forks |-> SumSeq([i \in 1..Len(rs) |-> Get(rs[i], "forks_count", 0)]),
                  language_stats |-> MostCommon(Counter(language_list))]

InitAnalyze ==
    /\ pc = "analyze"
    /\ repos \in SnapshotsOf(RepoPool \cup {NoLanguageRepo})
    /\ analysis_result = PyNone
    /\ files = <<>>
    /\ now = NoClock
    /\ days_ago = 0
    /\ comparison_file = PyNone
    /\ previous_data = <<>>
    /\ previous_analysis = PyNone
    /\ report = NoReport
    /\ NoSave

AnalyzeData ==
    /\ pc = "analyze"
    /\ analysis_result' = analyze_data(repos)
    /\ pc' = "analyzed"
    /\ UNCHANGED <<files, now, days_ago, comparison_file, repos, previous_data,
                   previous_analysis, report, disk, raw_data_path, save_ok>>

NextAnalyze == AnalyzeData

SpecAnalyze == InitAnalyze /\ [][NextAnalyze]_vars

(***************************************************************************)
(* compare_trends                                                          *)
(***************************************************************************)
NA == [text |-> "N/A"]

\* n / d rounded to the nearest integer, halves to even (n >= 0, d > 0)
RoundDiv(n, d) ==
    LET q == n \div d
        r == n % d
    IN IF 2 * r > d \/ (2 * r = d /\ q % 2 = 1) THEN q + 1 ELSE q

\* f"{change / prev * 100:+.2f}%": the sign and the hundredths of a percent;
\* the division raises ZeroDivisionError for prev = 0
PctFormat(change, prev) ==
    IF prev = 0 THEN Raised("ZeroDivisionError")
    ELSE [sign |-> IF (change < 0) # (prev < 0) /\ change # 0 THEN "-" ELSE "+",
          hundredths |-> RoundDiv(Abs(change) * 10000, Abs(prev))]

\* PctStr without the test of prev
PctStrUnguarded(change, prev) == PctFormat(change, prev)

\* f"{pct_change:+.2f}%" if prev != 0 else "N/A"
PctStr(change, prev) == IF prev # 0 THEN PctFormat(change, prev) ELSE NA

format_change(prev, curr) ==
    [prev |-> prev, curr |-> curr, change |-> curr - prev,
     pct_str |-> PctStr(curr - prev, prev)]

\* the code points of the language names in use
CodePoints(str) ==
    CASE str = "C" -> <<67>>
      [] str = "C++" -> <<67, 43, 43>>
      [] str = "Go" -> <<71, 111>>
      [] str = "N/A" -> <<78, 47, 65>>
      [] str = "Python" -> <<80, 121, 116, 104, 111, 110>>

RECURSIVE SeqLess(_, _)
\* a < b of two strings: by code point, a proper prefix first
SeqLess(a, b) ==
    IF b = <<>> THEN FALSE
    ELSE IF a = <<>> THEN TRUE
    ELSE IF Head(a) # Head(b) THEN Head(a) < Head(b)
    ELSE SeqLess(Tail(a), Tail(b))

StrLess(a, b) == SeqLess(CodePoints(a), CodePoints(b))

RECURSIVE SortedStrs(_)
\* sorted(set of strings)
SortedStrs(S) ==
    IF S = {} THEN <<>>
    ELSE LET least == CHOOSE x \in S : \A y \in S \ {x} : StrLess(x, y)
         IN <<least>> \o SortedStrs(S \ {least})

\* LanguageLine without the test prev_count != curr_count
LanguageLineAlways(prev_stats, curr_stats, lang) ==
    LET prev_count == PairsGet(prev_stats, lang, 0)
        curr_count == PairsGet(curr_stats, lang, 0)
    IN <<[lang |-> lang, prev |-> prev_count, curr |-> curr_count,
          change |-> curr_count - prev_count,
          pct_str |-> PctStr(curr_count - prev_count, prev_count)]>>

\* one line per language whose count changed
LanguageLine(prev_stats, curr_stats, lang) ==
    LET prev_count == PairsGet(prev_stats, lang, 0)
        curr_count == PairsGet(curr_stats, lang, 0)
    IN IF prev_count # curr_count
       THEN <<[lang |-> lang, prev |-> prev_count, curr |-> curr_count,
               change |-> curr_count - prev_count,
               pct_str |-> PctStr(curr_count - prev_count, prev_count)]>>
       ELSE <<>>

RECURSIVE LanguageLoop(_, _, _)
LanguageLoop(prev_stats, curr_stats, langs) ==
    IF langs = <<>> THEN <<>>
    ELSE LanguageLine(prev_stats, curr_stats, Head(langs))
         \o LanguageLoop(prev_stats, curr_stats, Tail(langs))

LanguageLines(prev_stats, curr_stats) ==
    LET all_langs == Keys(prev_stats) \cup Keys(curr_stats)
    IN LanguageLoop(prev_stats, curr_stats, SortedStrs(all_langs))

\* for i, repo in enumerate(rs, 1): d[repo['full_name']] = {rank: i, stars: ...}
\* (a later record of the same name overwrites an earlier one)
RankDict(rs) ==
    [n \in {rs[i].full_name : i \in 1..Len(rs)} |->
        LET i == CHOOSE k \in 1..Len(rs) :
                    /\ rs[k].full_name = n
                    /\ \A j \in 1..Len(rs) : rs[j].full_name = n => j <= k
        IN [rank |-> i, stars |-> rs[i].stargazers_count]]

RECURSIVE Filter(_, _)
\* the entries of list whose index is in keep, in order
Filter(list, keep) ==
    IF list = <<>> THEN <<>>
    ELSE Filter(SubSeq(list, 1, Len(list) - 1), keep)
         \o (IF Len(list) \in keep THEN <<list[Len(list)]>> ELSE <<>>)

\* NewIndexes with the membership test inverted
NewIndexesInverted(prev_dict, current_repos) ==
    {i \in 1..Len(current_repos) : current_repos[i].full_name \in DOMAIN prev_dict}

\* NewIndexes without the membership test
NewIndexesAll(prev_dict, current_repos) == 1..Len(current_repos)

\* the indexes of the current records that are new on the list
NewIndexes(prev_dict, current_repos) ==
    {i \in 1..Len(current_repos) : current_repos[i].full_name \notin DOMAIN prev_dict}

\* ChangedIndexes without the test prev_rank != curr_rank
ChangedIndexesNoRankTest(prev_dict, curr_dict, current_repos) ==
    {i \in 1..Len(current_repos) : current_repos[i].full_name \in DOMAIN prev_dict}

\* the indexes of the current records whose rank changed
ChangedIndexes(prev_dict, curr_dict, current_repos) ==
    {i \in 1..Len(current_repos) :
        LET name == current_repos[i].full_name
        IN /\ name \in DOMAIN prev_dict
           /\ prev_dict[name].rank # curr_dict[name].rank}

\* AttachPrevStars on every record the previous snapshot holds
AttachPrevStarsAll(prev_dict, curr_dict, current_repos) ==
    [i \in 1..Len(current_repos) |->
        IF current_repos[i].full_name \in DOMAIN prev_dict
        THEN SetItem(current_repos[i], "prev_stars",
                     prev_dict[current_repos[i].full_name].stars)
        ELSE current_repos[i]]

\* repo['prev_stars'] = prev_dict[name]['stars'], on the caller's record
AttachPrevStars(prev_dict, curr_dict, current_repos) ==
    [i \in 1..Len(current_repos) |->
        IF i \in ChangedIndexes(prev_dict, curr_dict, current_repos)
        THEN SetItem(current_repos[i], "prev_stars",
                     prev_dict[current_repos[i].full_name].stars)
        ELSE current_repos[i]]

\* RankChange with change = curr_rank - prev_rank
RankChangeFlipped(prev_dict, curr_dict, repo) ==
    LET prev_rank == prev_dict[repo.full_name].rank
        curr_rank == curr_dict[repo.full_name].rank
    IN [repo |-> repo, prev_rank |-> prev_rank, curr_rank |-> curr_rank,
        change |-> curr_rank - prev_rank]

\* rank_changes.append((repo, prev_rank, curr_rank, change))
RankChange(prev_dict, curr_dict, repo) ==
    LET prev_rank == prev_dict[repo.full_name].rank
        curr_rank == curr_dict[repo.full_name].rank
    IN [repo |-> repo, prev_rank |-> prev_rank, curr_rank |-> curr_rank,
        change |-> prev_rank - curr_rank]

\* SortRankChanges as an ascending sort read backwards: equal keys change places
SortRankChangesTiesReversed(rank_changes) ==
    LET n == Len(rank_changes)
        keyed == [i \in 1..n |->
                    [key |-> Abs(rank_changes[n + 1 - i].change),
                     item |-> rank_changes[n + 1 - i]]]
        s == SortedDesc(keyed)
    IN [i \in 1..Len(s) |-> s[i].item]

\* sorted(rank_changes, key=lambda x: abs(x[3]), reverse=True)
SortRankChanges(rank_changes) ==
    LET keyed == [i \in 1..Len(rank_changes) |->
                    [key |-> Abs(rank_changes[i].change), item |-> rank_changes[i]]]
        s == SortedDesc(keyed)
    IN [i \in 1..Len(s) |-> s[i].item]

\* the line printed for one rank change
RankLine(rc) ==
    [direction |-> IF rc.change > 0 THEN "up" ELSE "down",
     name |-> rc.repo.name, full_name |-> rc.repo.full_name,
     prev_rank |-> rc.prev_rank, curr_rank |-> rc.curr_rank, change |-> rc.change,
     stars |-> rc.repo.stargazers_count, prev_stars |-> rc.repo.prev_stars,
     star_pct_str |-> PctStr(rc.repo.stargazers_count - rc.repo.prev_stars,
                             rc.repo.prev_stars)]

\* compare_trends: [report, current_repos], the second being the caller's
\* list of records as the call leaves it
compare_trends(prev_analysis, curr_analysis, previous_repos, current_repos) ==
    IF prev_analysis = PyNone \/ curr_analysis = PyNone
    THEN [report |-> Raised("TypeError"), current_repos |-> current_repos]
    ELSE
    LET prev_dict == RankDict(previous_repos)
        curr_dict == RankDict(current_repos)
        new_projects == Filter(current_repos, NewIndexes(prev_dict, current_repos))
        marked == AttachPrevStars(prev_dict, curr_dict, current_repos)
        changed == Filter(marked, ChangedIndexes(prev_dict, curr_dict, current_repos))
        rank_changes == [i \in 1..Len(changed) |->
                            RankChange(prev_dict, curr_dict, changed[i])]
        ordered == SortRankChanges(rank_changes)
    IN [report |->
          [printed |-> TRUE,
           stars |-> format_change(prev_analysis.total_stars, curr_analysis.total_stars),
           forks |-> format_change(prev_analysis.total_forks, curr_analysis.total_forks),
           langs |-> LanguageLines(prev_analysis.language_stats,
                                   curr_analysis.language_stats),
           new_projects |-> [i \in 1..Len(new_projects) |->
                               [rank |-> curr_dict[new_projects[i].full_name].rank,
                                name |-> new_projects[i].name,
                                full_name |-> new_projects[i].full_name,
                                stars |-> new_projects[i].stargazers_count]],
           rank_changes |-> [i \in 1..Len(ordered) |-> RankLine(ordered[i])]],
        current_repos |-> marked]

\* main, from the loading of the comparison file on: the current snapshot is
\* fetched (not empty) and analyzed, the previous one is any snapshot on file
InitCompare ==
    /\ pc = "load"
    /\ repos \in Snapshots \ {<<>>}
    /\ analysis_result = analyze_data(repos)
    /\ previous_data \in Snapshots
    /\ previous_analysis = PyNone
    /\ report = NoReport
    /\ files = <<>>
    /\ now = NoClock
    /\ days_ago = 0
    /\ comparison_file = PyNone
    /\ NoSave

\* previous_analysis = analyze_data(previous_data)
AnalyzePrevious ==
    /\ pc = "load"
    /\ previous_analysis' = analyze_data(previous_data)
    /\ pc' = "compare"
    /\ UNCHANGED <<files, now, days_ago, comparison_file, repos, analysis_result,
                   previous_data, report, disk, raw_data_path, save_ok>>

\* compare_trends(previous_analysis, analysis_result, previous_data, repos)
CompareTrends ==
    /\ pc = "compare"
    /\ LET r == compare_trends(previous_analysis, analysis_result, previous_data, repos)
       IN /\ report' = r.report
          /\ repos' = r.current_repos
    /\ pc' = "compared"
    /\ UNCHANGED <<files, now, days_ago, comparison_file, analysis_result,
                   previous_data, previous_analysis, disk, raw_data_path, save_ok>>

NextCompare == AnalyzePrevious \/ CompareTrends

SpecCompare == InitCompare /\ [][NextCompare]_vars

(***************************************************************************)
(* main, from the fetch to the comparison.  The data directory is the list *)
(* files (the order in which glob enumerates it) and the text of each      *)
(* file, disk.  json.dump writes a record as its <<key, value>> pairs,     *)
(* each value tagged as a number, a string or null; json.load reads them   *)
(* back.                                                                   *)
(***************************************************************************)
Range(s) == {s[i] : i \in 1..Len(s)}

KeyOrder ==
    <<"full_name", "name", "stargazers_count", "language", "forks_count",
      "ai_summary", "prev_stars">>

NumberKeys == {"stargazers_count", "forks_count", "prev_stars"}

JsonValue(key, v) ==
    IF key \in NumberKeys THEN [num |-> v]
    ELSE IF v = Null THEN [null |-> TRUE] ELSE [str |-> v]

PyValue(j) ==
    IF "num" \in DOMAIN j THEN j.num
    ELSE IF "null" \in DOMAIN j THEN Null ELSE j.str

\* the <<key, value>> pairs of one record
DumpRecord(r) ==
    LET present == SelectSeq(KeyOrder, LAMBDA k : k \in DOMAIN r)
    IN [i \in 1..Len(present) |-> <<present[i], JsonValue(present[i], r[present[i]])>>]

LoadRecord(pairs) ==
    [k \in Keys(pairs) |->
        PyValue(pairs[CHOOSE i \in 1..Len(pairs) : pairs[i][1] = k][2])]

\* json.dump(repos, f)
JsonDump(rs) == [complete |-> TRUE, items |-> [i \in 1..Len(rs) |-> DumpRecord(rs[i])]]

\* the text of a file whose writing was cut short
PartialText == [complete |-> FALSE, items |-> <<>>]

\* json.load(f): JSONDecodeError for a text cut short
JsonLoad(text) ==
    IF text.complete THEN [i \in 1..Len(text.items) |-> LoadRecord(text.items[i])]
    ELSE Raised("JSONDecodeError")

\* datetime.strftime('%Y-%m-%d'): the stem of the clock's day
Strftime(clock) ==
    CHOOSE st \in {Stem(2024, m, d) : m \in 1..12, d \in 1..31} :
        /\ Strptime(st) # Raised("ValueError")
        /\ Strptime(st).ord = clock.ord

\* the snapshots the search may return in a run, none included
FetchedSnapshots ==
    { <<>>,
      << SetItem(Repo("o1/a", "a", 3, "Go"), "forks_count", 1),
         Repo("o2/a", "a", 2, "C") >>,
      << Repo("o2/c", "c", 0, "") >> }

\* the snapshot of the files written by earlier runs
OldSnapshot ==
    << SetItem(Repo("o2/a", "a", 3, "C++"), "forks_count", 2),
       SetItem(Repo("o1/a", "a", 3, "Go"), "forks_count", 1) >>

\* the stems the data directory may hold before the run
MainStems ==
    {Stem(2024, 2, 29), Stem(2024, 2, 30), Stem(2024, 3, 1), Stem(2024, 3, 2)}

\* the days the clock may advance between the save and the lookup
ClockAdvances == {0, 1}

InitMain ==
    /\ pc = "fetch"
    /\ files \in {s \in SeqsUpTo(MainStems, MaxFiles) : Distinct(s)}
    /\ disk = [st \in Range(files) |-> JsonDump(OldSnapshot)]
    /\ now \in Clocks
    /\ days_ago \in DaysAgoValues
    /\ comparison_file = PyNone
    /\ repos = <<>>
    /\ analysis_result = PyNone
    /\ previous_data = <<>>
    /\ previous_analysis = PyNone
    /\ report = NoReport
    /\ raw_data_path = PyNone
    /\ save_ok = FALSE

\* repos = get_trending_repos(...); the run ends when there are none;
\* analysis_result = analyze_data(repos)
FetchAndAnalyze ==
    /\ pc = "fetch"
    /\ \E rs \in FetchedSnapshots :
          /\ repos' = rs
          /\ analysis_result' = analyze_data(rs)
          /\ pc' = IF rs = <<>> THEN "done" ELSE "save"
    /\ UNCHANGED <<files, now, days_ago, comparison_file, previous_data,
                   previous_analysis, report, disk, raw_data_path, save_ok>>

\* the listings after the file st is created: anywhere in the enumeration
Created(fs, st) ==
    IF st \in Range(fs) THEN {fs}
    ELSE {SubSeq(fs, 1, k) \o <<st>> \o SubSeq(fs, k + 1, Len(fs)) : k \in 0..Len(fs)}

\* disk with the text of the file st set
Written(dk, st, text) ==
    [x \in DOMAIN dk \cup {st} |-> IF x = st THEN text ELSE dk[x]]

\* SaveRawData writing to the default filename, trending_repos.json, which no
\* data_*.json pattern matches
SaveRawDataDefaultName ==
    /\ pc = "save"
    /\ raw_data_path' = Strftime(now)
    /\ save_ok' = TRUE
    /\ pc' = "report"
    /\ UNCHANGED <<files, disk, now, days_ago, comparison_file, repos,
                   analysis_result, previous_data, previous_analysis, report>>

\* today_str = datetime.now().strftime('%Y-%m-%d');
\* save_raw_data(repos, filename=raw_data_path): the file is written, or open
\* fails and nothing changes, or the writing fails and leaves a text cut short
SaveRawData ==
    /\ pc = "save"
    /\ raw_data_path' = Strftime(now)
    /\ \/ /\ files' \in Created(files, Strftime(now))
          /\ disk' = Written(disk, Strftime(now), JsonDump(repos))
          /\ save_ok' = TRUE
       \/ /\ UNCHANGED <<files, disk>>
          /\ save_ok' = FALSE
       \/ /\ files' \in Created(files, Strftime(now))
          /\ disk' = Written(disk, Strftime(now), PartialText)
          /\ save_ok' = FALSE
    /\ pc' = "report"
    /\ UNCHANGED <<now, days_ago, comparison_file, repos, analysis_result,
                   previous_data, previous_analysis, report>>

\* print_console_report and save_markdown_report: every record of repos gets
\* the key ai_summary, and time passes
Report ==
    /\ pc = "report"
    /\ repos' = [i \in 1..Len(repos) |-> SetItem(repos[i], "ai_summary", "summary")]
    /\ \E k \in ClockAdvances : now' = [ord |-> now.ord + k, sec |-> now.sec]
    /\ pc' = "find"
    /\ UNCHANGED <<files, disk, days_ago, comparison_file, analysis_result,
                   previous_data, previous_analysis, report, raw_data_path, save_ok>>

\* if comparison_file: previous_data = json.load(f); a text that does not
\* parse ends the comparison in main's except
LoadPrevious ==
    /\ pc = "found"
    /\ \/ /\ comparison_file = PyNone
          /\ pc' = "done"
          /\ UNCHANGED previous_data
       \/ /\ comparison_file # PyNone
          /\ ~disk[comparison_file].complete
          /\ pc' = "failed"
          /\ UNCHANGED previous_data
       \/ /\ comparison_file # PyNone
          /\ disk[comparison_file].complete
          /\ previous_data' = JsonLoad(disk[comparison_file])
          /\ pc' = "load"
    /\ UNCHANGED <<files, disk, now, days_ago, comparison_file, repos,
                   analysis_result, previous_analysis, report, raw_data_path, save_ok>>

NextMain ==
    \/ FetchAndAnalyze
    \/ SaveRawData
    \/ Report
    \/ FindComparisonFile
    \/ LoadPrevious
    \/ AnalyzePrevious
    \/ CompareTrends

SpecMain == InitMain /\ [][NextMain]_vars

(***************************************************************************)
(* Properties of find_comparison_file (SpecFind)                           *)
(***************************************************************************)
Parsable(stem) == Strptime(stem) # Raised("ValueError")

\* the calendar days between a parsable stem and the target date
DayDiff(stem, target_ord) == Abs(target_ord - Strptime(stem).ord)

\* the first candidate of fs at the least distance to the target, when that
\* distance is within tol days
Closest(fs, target_ord, tol) ==
    LET cand == {i \in 1..Len(fs) : Parsable(fs[i])}
    IN IF cand = {} THEN PyNone
       ELSE LET best == CHOOSE i \in cand : \A j \in cand :
                            \/ DayDiff(fs[i], target_ord) < DayDiff(fs[j], target_ord)
                            \/ /\ DayDiff(fs[i], target_ord) = DayDiff(fs[j], target_ord)
                               /\ i <= j
            IN IF DayDiff(fs[best], target_ord) <= tol THEN fs[best] ELSE PyNone

\* C1 as stated: for every tolerance_days the result is the first candidate at
\* the least day-difference when that difference is <= tolerance_days, else
\* none.  The code takes no tolerance: it always uses two days.
C1_AnyTolerance ==
    pc = "found" =>
        \A tolerance_days \in {0, 1, 2, 3} :
            comparison_file = Closest(files, now.ord - days_ago, tolerance_days)

\* C1 amended: the result of find_comparison_file is the first file in
\* enumeration order whose day-difference to the target date is the least
\* among the files with a parsable date, when that least difference is at
\* most 2 days, and none otherwise; files whose date cannot be parsed do not
\* change the result.
C1_ClosestWithinTwoDays ==
    pc = "found" =>
        /\ comparison_file = Closest(files, now.ord - days_ago, 2)
        /\ comparison_file =
              find_comparison_file(days_ago, SelectSeq(files, Parsable), now)

\* two files at the same least distance behind an unparsable one: the first wins
C1_Witness ==
    /\ pc = "found"
    /\ \E k, i, j \in 1..Len(files) :
          /\ k < i /\ i < j
          /\ ~Parsable(files[k])
          /\ Parsable(files[i]) /\ Parsable(files[j])
          /\ DayDiff(files[i], now.ord - days_ago) = DayDiff(files[j], now.ord - days_ago)
          /\ DayDiff(files[i], now.ord - days_ago) \in 1..2
          /\ comparison_file = files[i]

(***************************************************************************)
(* Properties of analyze_data (SpecAnalyze)                                *)
(***************************************************************************)
\* the language a record counts under: the sentinel when it has none
LanguageOf(r) ==
    IF "language" \notin DOMAIN r THEN "N/A"
    ELSE IF r.language \in {Null, ""} THEN "N/A" ELSE r.language

ForksOf(r) == IF "forks_count" \in DOMAIN r THEN r.forks_count ELSE 0

RECURSIVE SumTo(_, _)
\* the sum of values[1..n]
SumTo(values, n) == IF n = 0 THEN 0 ELSE SumTo(values, n - 1) + values[n]

IsSummaryOf(a, rs) ==
    /\ ~IsRaised(a)
    /\ a # PyNone
    /\ a.repo_count = Len(rs)
    /\ a.total_stars = SumTo([i \in 1..Len(rs) |-> rs[i].stargazers_count], Len(rs))
    /\ a.total_forks = SumTo([i \in 1..Len(rs) |-> ForksOf(rs[i])], Len(rs))
    /\ Keys(a.language_stats) = {LanguageOf(rs[i]) : i \in 1..Len(rs)}
    /\ \A k \in 1..Len(a.language_stats) :
          a.language_stats[k][2] =
             Cardinality({i \in 1..Len(rs) : LanguageOf(rs[i]) = a.language_stats[k][1]})
    /\ \A k, l \in 1..Len(a.language_stats) :
          k # l => a.language_stats[k][1] # a.language_stats[l][1]

\* C2: a non-empty snapshot is summarized by its length, its star and fork
\* sums (a missing fork count as 0) and its language histogram (a missing or
\* null language under the sentinel); an empty snapshot gives None.
C2_Summary ==
    pc = "analyzed" =>
        IF repos = <<>> THEN analysis_result = PyNone
        ELSE IsSummaryOf(analysis_result, repos)

(***************************************************************************)
(* Properties of compare_trends (SpecCompare)                              *)
(***************************************************************************)
\* compare_trends has returned and printed its report
Printed == pc = "compared" /\ ~IsRaised(report)

\* the step that calls compare_trends
CompareStep == pc = "compare" /\ pc' = "compared"

NamesOf(rs) == {rs[i].full_name : i \in 1..Len(rs)}

\* the rank of the record named n in the snapshot rs
IndexOf(rs, n) == CHOOSE i \in 1..Len(rs) : rs[i].full_name = n

\* the k-th least element of a set of numbers
NthOf(S, k) == CHOOSE i \in S : Cardinality({j \in S : j < i}) = k - 1

\* p is "N/A" for a zero baseline, and otherwise the hundredth of a percent
\* nearest to (curr - prev) / prev * 100
PctIs(p, prev, curr) ==
    IF prev = 0 THEN p = NA
    ELSE /\ ~IsRaised(p)
         /\ p # NA
         /\ LET v == IF p.sign = "-" THEN -p.hundredths ELSE p.hundredths
            IN 2 * Abs(v * prev - (curr - prev) * 10000) <= Abs(prev)

\* C3: a zero baseline is reported as "N/A" and never divided by; any other
\* baseline gives delta / previous * 100 with delta = current - previous, for
\* the star total, the fork total and the stars of every rank-change entry.
C3_ZeroBaseline ==
    /\ report # Raised("ZeroDivisionError")
    /\ Printed =>
        /\ report.stars.change =
              analysis_result.total_stars - previous_analysis.total_stars
        /\ PctIs(report.stars.pct_str, previous_analysis.total_stars,
                 analysis_result.total_stars)
        /\ report.forks.change =
              analysis_result.total_forks - previous_analysis.total_forks
        /\ PctIs(report.forks.pct_str, previous_analysis.total_forks,
                 analysis_result.total_forks)
        /\ \A k \in 1..Len(report.rank_changes) :
              LET e == report.rank_changes[k]
              IN PctIs(e.star_pct_str,
                       previous_data[IndexOf(previous_data, e.full_name)].stargazers_count,
                       repos[IndexOf(repos, e.full_name)].stargazers_count)

\* a zero fork baseline beside a non-zero star baseline, and two rank changes,
\* one from zero stars and one from 2 stars to 3
C3_Witness ==
    /\ Printed
    /\ previous_analysis.total_stars # 0
    /\ previous_analysis.total_forks = 0
    /\ analysis_result.total_forks # 0
    /\ report.forks.pct_str = NA
    /\ \E k, l \in 1..Len(report.rank_changes) :
          /\ report.rank_changes[k].prev_stars = 0
          /\ report.rank_changes[k].star_pct_str = NA
          /\ report.rank_changes[l].prev_stars = 2
          /\ report.rank_changes[l].star_pct_str = [sign |-> "+", hundredths |-> 5000]

\* the current record at rank i was at another rank of the previous snapshot
RankMoved(prevs, rs, i) ==
    \E j \in 1..Len(prevs) : prevs[j].full_name = rs[i].full_name /\ j # i

\* C4 as stated: compare_trends leaves both summaries, both snapshots and
\* every record of them as they were before the call.
C4_InputsUnchanged ==
    [][CompareStep =>
          /\ repos' = repos
          /\ previous_data' = previous_data
          /\ analysis_result' = analysis_result
          /\ previous_analysis' = previous_analysis]_vars

\* C4 amended: compare_trends leaves both summaries, the previous snapshot and
\* every current record whose rank did not change as they were; to each
\* current record whose rank changed it adds the key prev_stars, the star
\* count of that repository in the previous snapshot, and changes nothing
\* else of it.
C4_OnlyPrevStarsAdded ==
    [][CompareStep =>
          /\ previous_data' = previous_data
          /\ analysis_result' = analysis_result
          /\ previous_analysis' = previous_analysis
          /\ Len(repos') = Len(repos)
          /\ \A i \in 1..Len(repos) :
                repos'[i] =
                   IF RankMoved(previous_data, repos, i)
                   THEN SetItem(repos[i], "prev_stars",
                           previous_data[IndexOf(previous_data, repos[i].full_name)]
                              .stargazers_count)
                   ELSE repos[i]]_vars

\* after a call, one current record carries prev_stars and another, which the
\* previous snapshot holds at the same rank, does not
C4_Witness ==
    /\ Printed
    /\ \E i, j \in 1..Len(repos) :
          /\ "prev_stars" \in DOMAIN repos[i]
          /\ "prev_stars" \notin DOMAIN repos[j]
          /\ j <= Len(previous_data)
          /\ previous_data[j].full_name = repos[j].full_name

\* C5: a snapshot compared against itself gives star delta 0, fork delta 0, no
\* language line, no new entrant and no rank change.
C5_SelfComparison ==
    [][CompareStep /\ repos = previous_data =>
          /\ ~IsRaised(report')
          /\ report'.stars.change = 0
          /\ report'.forks.change = 0
          /\ report'.langs = <<>>
          /\ report'.new_projects = <<>>
          /\ report'.rank_changes = <<>>]_vars

\* a snapshot of several records has been compared against itself
C5_Witness ==
    /\ Printed
    /\ repos = previous_data
    /\ Len(repos) >= 2
    /\ analysis_result.total_stars # 0
    /\ report.stars.change = 0

\* C6: the new entrants are exactly the current records whose full_name the
\* previous snapshot does not hold, in the current order, each with its
\* current rank; none of them is a name of the previous snapshot.
C6_NewEntrants ==
    Printed =>
        LET newIdx == {i \in 1..Len(repos) :
                          repos[i].full_name \notin NamesOf(previous_data)}
            np == report.new_projects
        IN /\ Len(np) = Cardinality(newIdx)
           /\ \A k \in 1..Len(np) :
                 LET i == NthOf(newIdx, k)
                 IN /\ np[k].rank = i
                    /\ np[k].full_name = repos[i].full_name
                    /\ np[k].name = repos[i].name
                    /\ np[k].stars = repos[i].stargazers_count
                    /\ np[k].full_name \notin NamesOf(previous_data)

\* two new entrants at ranks 1 and 3 around a record the previous snapshot holds
C6_Witness ==
    /\ Printed
    /\ Len(report.new_projects) = 2
    /\ report.new_projects[1].rank = 1
    /\ report.new_projects[2].rank = 3
    /\ repos[2].full_name \in NamesOf(previous_data)

\* C7: a rank-change entry exists for a current record exactly when the
\* previous snapshot holds its full_name at another rank; its change is
\* previous rank - current rank (positive: toward rank 1) and its prev_stars
\* is the star count of that name in the previous snapshot.
C7_RankChanges ==
    Printed =>
        LET moved == {i \in 1..Len(repos) : RankMoved(previous_data, repos, i)}
            rc == report.rank_changes
        IN /\ Len(rc) = Cardinality(moved)
           /\ {rc[k].full_name : k \in 1..Len(rc)} = {repos[i].full_name : i \in moved}
           /\ \A k \in 1..Len(rc) :
                 LET i == IndexOf(repos, rc[k].full_name)
                     j == IndexOf(previous_data, rc[k].full_name)
                 IN /\ rc[k].curr_rank = i
                    /\ rc[k].prev_rank = j
                    /\ rc[k].change = j - i
                    /\ (rc[k].direction = "up") = (i < j)
                    /\ rc[k].prev_stars = previous_data[j].stargazers_count
                    /\ rc[k].stars = repos[i].stargazers_count

\* one record moved up, one moved down with another star count than before,
\* and a record of both snapshots kept its rank
C7_Witness ==
    /\ Printed
    /\ \E k, l \in 1..Len(report.rank_changes) :
          /\ report.rank_changes[k].change > 0
          /\ report.rank_changes[l].change < 0
          /\ report.rank_changes[l].prev_stars # report.rank_changes[l].stars
    /\ \E i \in 1..Len(repos) :
          /\ i <= Len(previous_data)
          /\ repos[i].full_name = previous_data[i].full_name

\* C8: the rank changes are printed by |change| descending, and entries of
\* equal |change| in the order of their records in the current snapshot.
C8_SortedStable ==
    Printed =>
        LET rc == report.rank_changes
        IN \A k, l \in 1..Len(rc) :
              k < l =>
                 /\ Abs(rc[k].change) >= Abs(rc[l].change)
                 /\ Abs(rc[k].change) = Abs(rc[l].change) =>
                       IndexOf(repos, rc[k].full_name) < IndexOf(repos, rc[l].full_name)

\* the record at current rank 3 moved by 2 and is printed first, before the
\* records at ranks 1 and 2, which both moved by 1
C8_Witness ==
    /\ Printed
    /\ Len(report.rank_changes) = 3
    /\ report.rank_changes[1].curr_rank = 3
    /\ Abs(report.rank_changes[1].change) = 2
    /\ report.rank_changes[2].curr_rank = 1
    /\ report.rank_changes[3].curr_rank = 2
    /\ Abs(report.rank_changes[2].change) = Abs(report.rank_changes[3].change)

\* the count of a language in a histogram, 0 for a language it does not hold
CountIn(stats, lang) ==
    LET hits == {k \in 1..Len(stats) : stats[k][1] = lang}
    IN IF hits = {} THEN 0 ELSE stats[CHOOSE k \in hits : TRUE][2]

\* C9: over the languages of both summaries, a missing one counting 0, a line
\* is printed for a language exactly when its two counts differ; its change is
\* current count - previous count, and the lines are in lexicographic order.
C9_LanguageDiff ==
    Printed =>
        LET ps == previous_analysis.language_stats
            cs == analysis_result.language_stats
            changed == {lang \in Keys(ps) \cup Keys(cs) :
                           CountIn(ps, lang) # CountIn(cs, lang)}
            lines == report.langs
        IN /\ Len(lines) = Cardinality(changed)
           /\ {lines[k].lang : k \in 1..Len(lines)} = changed
           /\ \A k \in 1..Len(lines) :
                 /\ lines[k].prev = CountIn(ps, lines[k].lang)
                 /\ lines[k].curr = CountIn(cs, lines[k].lang)
                 /\ lines[k].change = lines[k].curr - lines[k].prev
           /\ \A k, l \in 1..Len(lines) :
                 k < l => StrLess(lines[k].lang, lines[l].lang)

\* "C" appears and "C++" disappears, printed in that order, while a language
\* with the same count on both sides has no line
C9_Witness ==
    /\ Printed
    /\ Len(report.langs) >= 2
    /\ report.langs[1].lang = "C" /\ report.langs[1].prev = 0
    /\ report.langs[2].lang = "C++" /\ report.langs[2].curr = 0
    /\ \E lang \in Keys(previous_analysis.language_stats) :
          /\ lang \in Keys(analysis_result.language_stats)
          /\ lang \notin {report.langs[k].lang : k \in 1..Len(report.langs)}

\* C10: every name among the new entrants and the rank changes is the name of
\* a current record, a record of the previous snapshot alone is not reported,
\* and no name is both a new entrant and a rank change.
C10_NoDropped ==
    Printed =>
        LET newNames == {report.new_projects[k].full_name :
                            k \in 1..Len(report.new_projects)}
            movedNames == {report.rank_changes[k].full_name :
                              k \in 1..Len(report.rank_changes)}
        IN /\ newNames \cup movedNames \subseteq NamesOf(repos)
           /\ \A n \in NamesOf(previous_data) \ NamesOf(repos) :
                 n \notin newNames \cup movedNames
           /\ newNames \cap movedNames = {}

\* a record dropped off the list while the report has a new entrant and rank
\* changes
C10_Witness ==
    /\ Printed
    /\ NamesOf(previous_data) \ NamesOf(repos) # {}
    /\ report.new_projects # <<>>
    /\ report.rank_changes # <<>>

(***************************************************************************)
(* Properties of main (SpecMain)                                           *)
(***************************************************************************)
\* the record r without the keys the run adds after the save
AsSaved(r) == [k \in DOMAIN r \ {"ai_summary", "prev_stars"} |-> r[k]]

\* the target date of the lookup
TargetOrd == now.ord - days_ago

\* no other file of the listing is strictly closer to the target date than the
\* file st, or as close and enumerated before it
NoneBefore(fs, st) ==
    \A j \in 1..Len(fs) :
        Parsable(fs[j]) /\ fs[j] # st =>
            /\ DayDiff(fs[j], TargetOrd) >= DayDiff(st, TargetOrd)
            /\ DayDiff(fs[j], TargetOrd) = DayDiff(st, TargetOrd) =>
                  \E i \in 1..j : fs[i] = st

\* C11: the file data_<today>.json is written before the lookup, so after a
\* successful save it is among the files the lookup enumerates, with the
\* snapshot of this run as its text; for days <= 2 the lookup then returns a
\* file, and it returns the file just written when no other file is strictly
\* closer to the target date or as close and enumerated earlier; the previous
\* snapshot is then the current one as saved, and the comparison reports no
\* change.
C11_SavedBeforeLookup ==
    save_ok =>
        /\ raw_data_path \in Range(files)
        /\ pc \in {"report", "find", "found"} =>
              JsonLoad(disk[raw_data_path]) = [i \in 1..Len(repos) |-> AsSaved(repos[i])]
        /\ pc = "found" /\ days_ago <= 2 =>
              /\ comparison_file # PyNone
              /\ NoneBefore(files, raw_data_path) => comparison_file = raw_data_path
        /\ pc \in {"load", "compare"} /\ comparison_file = raw_data_path =>
              previous_data = [i \in 1..Len(repos) |-> AsSaved(repos[i])]
        /\ pc = "compared" /\ comparison_file = raw_data_path =>
              /\ Printed
              /\ report.stars.change = 0
              /\ report.forks.change = 0
              /\ report.langs = <<>>
              /\ report.new_projects = <<>>
              /\ report.rank_changes = <<>>

\* two days asked for, the clock a day further at the lookup: the file just
\* written is returned although a later file of the listing is as close, and
\* the snapshot has been compared against itself
C11_Witness ==
    /\ pc = "compared"
    /\ save_ok
    /\ days_ago = 2
    /\ Strftime(now) # raw_data_path
    /\ comparison_file = raw_data_path
    /\ \E i, j \in 1..Len(files) :
          /\ i < j
          /\ files[i] = raw_data_path
          /\ Parsable(files[j])
          /\ DayDiff(files[j], TargetOrd) = DayDiff(raw_data_path, TargetOrd)
    /\ Len(repos) = 2
    /\ Printed
    /\ report.rank_changes = <<>>

====
